---- MODULE Spec2Model ----
(***************************************************************************)
(* Model of src/spawner/src/index.ts: the GoogleMeetRecorder class and     *)
(* main().  Every job j is one caller that runs the body of main():        *)
(* construct a GoogleMeetRecorder, await startRecording() inside           *)
(* try/catch.  Every await of a collaborator (puppeteer, the screen        *)
(* recorder, fs) either returns or throws.                                 *)
(***************************************************************************)
EXTENDS Integers, Sequences, FiniteSets, TLC

\* ---------------------------------------------------------------- bounds
MaxMatches == 2      \* DOM nodes 1..MaxMatches may match an XPath query
MaxTime == 1         \* Date.now() ranges over 0..MaxTime
ShortDuration == 1000  \* a recordingDuration a caller passes explicitly

\* ------------------------------------------------------ program constants
DefaultDuration == 30000     \* constructor default of recordingDuration
NavTimeout == 60000          \* timeout option of page.goto
MainDuration == 30000        \* duration main() passes

Null == 0                    \* the null ElementHandle
NoArg == -1                  \* constructor argument left out (undefined)
NoPath == <<>>               \* videoOutputPath before construction
NoDir == "undefined"         \* videoDir argument left out
DefaultDir == "report/video" \* constructor default of videoDir

Nodes == 1..MaxMatches
Queries == {"continue", "name", "join"}
DurationArgs == {NoArg, MainDuration, ShortDuration}
DirArgs == {NoDir, "out"}

RECURSIVE SeqOfSet(_)
\* the nodes of S in document order
SeqOfSet(S) ==
    IF S = {} THEN <<>>
    ELSE LET m == CHOOSE x \in S : \A y \in S : x <= y
         IN <<m>> \o SeqOfSet(S \ {m})

\* the possible results of page.$x: matching nodes in document order
MatchLists == {SeqOfSet(S) : S \in SUBSET Nodes}

VARIABLES
    jobs,             \* the callers in this process
    clock,            \* last value Date.now() returned
    pc,               \* position of each job's flow of control
    dom,              \* per job and query, the page's matching nodes
    durArg,           \* recordingDuration argument given to the constructor
    dirArg,           \* videoDir argument given to the constructor
    createdAt,        \* the value Date.now() gave the constructor
    recordingDuration,\* this.recordingDuration
    videoOutputPath,  \* this.videoOutputPath, NoPath before construction
    browser,          \* "none", "open", "closed"
    recorder,         \* "none", "idle", "recording", "finalized"
    element,          \* continueButton / nameInput / joinButton just located
    caught,           \* error bound in the catch clause, "none" otherwise
    trace,            \* collaborator calls made by the job, in order
    thrown,           \* errors raised during the job, in order
    console,          \* console.log / console.error records
    srOutcome,        \* promise of startRecording: pending/resolved/rejected
    srError,          \* rejection reason of startRecording
    mainOutcome       \* promise of main: pending/resolved/rejected

vars == <<jobs, clock, pc, dom, durArg, dirArg, createdAt,
          recordingDuration, videoOutputPath,
          browser, recorder, element, caught, trace, thrown, console,
          srOutcome, srError, mainOutcome>>

inputs == <<jobs, dom, durArg, dirArg>>
objVars == <<clock, createdAt, recordingDuration, videoOutputPath>>
promiseVars == <<srOutcome, srError, mainOutcome>>

Ev(op, arg) == [op |-> op, arg |-> arg]
Log(msg, err) == [msg |-> msg, err |-> err]

\* the state before the jobs J start at position start, with the pages
\* drawn from Doms and the constructor arguments from Durs and Dirs
InitWith(J, start, Doms, Durs, Dirs) ==
    /\ jobs = J
    /\ clock = 0
    /\ pc = [j \in J |-> start]
    /\ dom \in [J -> Doms]
    /\ durArg \in [J -> Durs]
    /\ dirArg \in [J -> Dirs]
    /\ createdAt = [j \in J |-> NoArg]
    /\ recordingDuration = [j \in J |-> 0]
    /\ videoOutputPath = [j \in J |-> NoPath]
    /\ browser = [j \in J |-> "none"]
    /\ recorder = [j \in J |-> "none"]
    /\ element = [j \in J |-> Null]
    /\ caught = [j \in J |-> "none"]
    /\ trace = [j \in J |-> <<>>]
    /\ thrown = [j \in J |-> <<>>]
    /\ console = [j \in J |-> <<>>]
    /\ srOutcome = [j \in J |-> "pending"]
    /\ srError = [j \in J |-> "none"]
    /\ mainOutcome = [j \in J |-> "pending"]

\* the jobs J before their constructors run, for every page and argument
InitJobs(J) ==
    InitWith(J, "construct", [Queries -> MatchLists], DurationArgs, DirArgs)

\* one job in the process, as main() runs it
Init == InitJobs({1})

\* ------------------------------------------------------------- helpers

\* a collaborator call ev returns normally; control moves to next
Returns(j, ev, next) ==
    /\ trace' = [trace EXCEPT ![j] = Append(@, ev)]
    /\ pc' = [pc EXCEPT ![j] = next]
    /\ UNCHANGED <<thrown, caught, promiseVars>>

\* a collaborator call ev inside the try block throws kind: the catch
\* clause binds the error
ThrowsInTry(j, ev, kind) ==
    /\ trace' = [trace EXCEPT ![j] = Append(@, ev)]
    /\ thrown' = [thrown EXCEPT ![j] = Append(@, kind)]
    /\ caught' = [caught EXCEPT ![j] = kind]
    /\ pc' = [pc EXCEPT ![j] = "catch"]
    /\ UNCHANGED promiseVars

\* a collaborator call ev outside the try block throws kind: the promise
\* of startRecording rejects and control returns to the caller
ThrowsOutside(j, ev, kind) ==
    /\ trace' = [trace EXCEPT ![j] = Append(@, ev)]
    /\ thrown' = [thrown EXCEPT ![j] = Append(@, kind)]
    /\ srOutcome' = [srOutcome EXCEPT ![j] = "rejected"]
    /\ srError' = [srError EXCEPT ![j] = kind]
    /\ pc' = [pc EXCEPT ![j] = "main_catch"]
    /\ UNCHANGED <<caught, mainOutcome>>

\* ------------------------------------------------- GoogleMeetRecorder

\* path.join(videoDir, `meet_recording_${Date.now()}.mp4`)
PathJoin(dir, t) == <<dir, "meet_recording_", t, ".mp4">>

\* Construct as it would be with the file name stamped in units of two
\* milliseconds
Construct_CoarseStamp(j) ==
    /\ pc[j] = "construct"
    /\ \E t \in clock..MaxTime :
        /\ clock' = t
        /\ createdAt' = [createdAt EXCEPT ![j] = t]
        /\ videoOutputPath' = [videoOutputPath EXCEPT ![j] =
               PathJoin(IF dirArg[j] = NoDir THEN DefaultDir ELSE dirArg[j],
                        t \div 2)]
    /\ recordingDuration' = [recordingDuration EXCEPT ![j] =
            IF durArg[j] = NoArg THEN DefaultDuration ELSE durArg[j]]
    /\ pc' = [pc EXCEPT ![j] = "launch"]
    /\ UNCHANGED <<inputs, browser, recorder, element, caught, trace,
                   thrown, console, promiseVars>>

\* constructor: recordingDuration defaults to 30000, mkdirSync, then the
\* output path is built from Date.now()
Construct(j) ==
    /\ pc[j] = "construct"
    /\ \E t \in clock..MaxTime :
        /\ clock' = t
        /\ createdAt' = [createdAt EXCEPT ![j] = t]
        /\ videoOutputPath' = [videoOutputPath EXCEPT ![j] =
               PathJoin(IF dirArg[j] = NoDir THEN DefaultDir ELSE dirArg[j], t)]
    /\ recordingDuration' = [recordingDuration EXCEPT ![j] =
            IF durArg[j] = NoArg THEN DefaultDuration ELSE durArg[j]]
    /\ pc' = [pc EXCEPT ![j] = "launch"]
    /\ UNCHANGED <<inputs, browser, recorder, element, caught, trace,
                   thrown, console, promiseVars>>

\* constructor: fs.mkdirSync throws; main has no handler around the
\* constructor, so its promise rejects and the top-level catch logs
ConstructFails(j) ==
    /\ pc[j] = "construct"
    /\ thrown' = [thrown EXCEPT ![j] = Append(@, "mkdir")]
    /\ mainOutcome' = [mainOutcome EXCEPT ![j] = "rejected"]
    /\ console' = [console EXCEPT ![j] = Append(@, Log("TopLevel", "mkdir"))]
    /\ pc' = [pc EXCEPT ![j] = "done"]
    /\ UNCHANGED <<inputs, objVars, browser, recorder, element, caught,
                   trace, srOutcome, srError>>

\* FirstOrNull as it would be if the last match were taken
FirstOrNull_Last(elements) ==
    IF Len(elements) > 0 THEN elements[Len(elements)] ELSE Null

\* findElementByXPath: the value returned for the list page.$x gave
FirstOrNull(elements) ==
    IF Len(elements) > 0 THEN elements[1] ELSE Null

\* puppeteer.launch
Launch(j) ==
    /\ pc[j] = "launch"
    /\ \/ /\ Returns(j, Ev("launch", 0), "newPage")
          /\ browser' = [browser EXCEPT ![j] = "open"]
       \/ /\ ThrowsOutside(j, Ev("launch", 0), "launch")
          /\ UNCHANGED browser
    /\ UNCHANGED <<inputs, objVars, recorder, element, console>>

\* browser.newPage
NewPage(j) ==
    /\ pc[j] = "newPage"
    /\ \/ Returns(j, Ev("newPage", 0), "stub")
       \/ ThrowsOutside(j, Ev("newPage", 0), "newPage")
    /\ UNCHANGED <<inputs, objVars, browser, recorder, element, console>>

\* InstallStub as it would be if a failing evaluate were swallowed
InstallStub_FailureIgnored(j) ==
    /\ pc[j] = "stub"
    /\ \/ Returns(j, Ev("stub", 0), "headers")
       \/ /\ trace' = [trace EXCEPT ![j] = Append(@, Ev("stub", 0))]
          /\ thrown' = [thrown EXCEPT ![j] = Append(@, "stub")]
          /\ pc' = [pc EXCEPT ![j] = "headers"]
          /\ UNCHANGED <<caught, promiseVars>>
    /\ UNCHANGED <<inputs, objVars, browser, recorder, element, console>>

\* page.evaluate installing the mediaDevices stub
InstallStub(j) ==
    /\ pc[j] = "stub"
    /\ \/ Returns(j, Ev("stub", 0), "headers")
       \/ ThrowsOutside(j, Ev("stub", 0), "stub")
    /\ UNCHANGED <<inputs, objVars, browser, recorder, element, console>>

\* page.setExtraHTTPHeaders
SetHeaders(j) ==
    /\ pc[j] = "headers"
    /\ \/ Returns(j, Ev("headers", 0), "mkRecorder")
       \/ ThrowsOutside(j, Ev("headers", 0), "headers")
    /\ UNCHANGED <<inputs, objVars, browser, recorder, element, console>>

\* try: require the recorder module and construct the recorder
MakeRecorder(j) ==
    /\ pc[j] = "mkRecorder"
    /\ \/ /\ Returns(j, Ev("newRecorder", 0), "goto")
          /\ recorder' = [recorder EXCEPT ![j] = "idle"]
       \/ /\ ThrowsInTry(j, Ev("newRecorder", 0), "recorderCtor")
          /\ UNCHANGED recorder
    /\ UNCHANGED <<inputs, objVars, browser, element, console>>

\* Goto as it would be if a navigation failure were swallowed and the job
\* went on with the page as it is
Goto_FailureIgnored(j) ==
    /\ pc[j] = "goto"
    /\ \/ Returns(j, Ev("navigate", NavTimeout), "wrap")
       \/ /\ trace' = [trace EXCEPT ![j] = Append(@, Ev("navigate", NavTimeout))]
          /\ thrown' = [thrown EXCEPT ![j] = Append(@, "navigation")]
          /\ pc' = [pc EXCEPT ![j] = "wrap"]
          /\ UNCHANGED <<caught, promiseVars>>
    /\ UNCHANGED <<inputs, objVars, browser, recorder, element, console>>

\* page.goto(meetUrl, {waitUntil, timeout: 60000})
Goto(j) ==
    /\ pc[j] = "goto"
    /\ \/ Returns(j, Ev("navigate", NavTimeout), "wrap")
       \/ ThrowsInTry(j, Ev("navigate", NavTimeout), "navigation")
    /\ UNCHANGED <<inputs, objVars, browser, recorder, element, console>>

\* page.evaluate wrapping getUserMedia
WrapGetUserMedia(j) ==
    /\ pc[j] = "wrap"
    /\ \/ Returns(j, Ev("wrap", 0), "viewport")
       \/ ThrowsInTry(j, Ev("wrap", 0), "wrap")
    /\ UNCHANGED <<inputs, objVars, browser, recorder, element, console>>

\* page.setViewport
SetViewport(j) ==
    /\ pc[j] = "viewport"
    /\ \/ Returns(j, Ev("viewport", 0), "findContinue")
       \/ ThrowsInTry(j, Ev("viewport", 0), "viewport")
    /\ UNCHANGED <<inputs, objVars, browser, recorder, element, console>>

\* const e = await this.findElementByXPath(page, q); if (e) ... : the
\* locator's query, its result, and the guard that follows it
Locate(j, at, q, ifFound, ifNull) ==
    /\ pc[j] = at
    /\ \/ /\ trace' = [trace EXCEPT ![j] = Append(@, Ev("query", q))]
          /\ element' = [element EXCEPT ![j] = FirstOrNull(dom[j][q])]
          /\ pc' = [pc EXCEPT ![j] =
                 IF FirstOrNull(dom[j][q]) # Null THEN ifFound ELSE ifNull]
          /\ UNCHANGED <<thrown, caught, promiseVars>>
       \/ /\ ThrowsInTry(j, Ev("query", q), "locate")
          /\ UNCHANGED element
    /\ UNCHANGED <<inputs, objVars, browser, recorder, console>>

\* ClickElement as it would be without the test of element
ClickElement_NoNullCheck(j, at, name, next) ==
    /\ pc[j] = at
    /\ \/ Returns(j, Ev(name, element[j]), next)
       \/ ThrowsInTry(j, Ev(name, element[j]), "interact")
    /\ UNCHANGED <<inputs, objVars, browser, recorder, element, console>>

\* clickElement(element): click it, or throw when it is null
ClickElement(j, at, name, next) ==
    /\ pc[j] = at
    /\ IF element[j] # Null
       THEN \/ Returns(j, Ev(name, element[j]), next)
            \/ ThrowsInTry(j, Ev(name, element[j]), "interact")
       ELSE /\ thrown' = [thrown EXCEPT ![j] = Append(@, "elementMissing")]
            /\ caught' = [caught EXCEPT ![j] = "elementMissing"]
            /\ pc' = [pc EXCEPT ![j] = "catch"]
            /\ UNCHANGED <<trace, promiseVars>>
    /\ UNCHANGED <<inputs, objVars, browser, recorder, element, console>>

\* typeInElement(element, text), first await: the triple click that
\* selects the existing text, or the throw when element is null
TypeSelect(j, at, next) ==
    /\ pc[j] = at
    /\ IF element[j] # Null
       THEN \/ Returns(j, Ev("select-name", element[j]), next)
            \/ ThrowsInTry(j, Ev("select-name", element[j]), "interact")
       ELSE /\ thrown' = [thrown EXCEPT ![j] = Append(@, "elementMissing")]
            /\ caught' = [caught EXCEPT ![j] = "elementMissing"]
            /\ pc' = [pc EXCEPT ![j] = "catch"]
            /\ UNCHANGED <<trace, promiseVars>>
    /\ UNCHANGED <<inputs, objVars, browser, recorder, element, console>>

\* typeInElement, second await: element.type(text)
TypeText(j, at, next) ==
    /\ pc[j] = at
    /\ \/ Returns(j, Ev("type-name", element[j]), next)
       \/ ThrowsInTry(j, Ev("type-name", element[j]), "interact")
    /\ UNCHANGED <<inputs, objVars, browser, recorder, element, console>>

\* FindContinue as it would be if a missing "continue" control ended the
\* navigator's name step too
FindContinue_NullSkipsName(j) ==
    Locate(j, "findContinue", "continue", "clickContinue", "findJoin")

\* step 1: locate the "Continue without microphone and camera" control
FindContinue(j) ==
    Locate(j, "findContinue", "continue", "clickContinue", "findName")

\* step 1: click it when it was found
ClickContinue(j) ==
    ClickElement(j, "clickContinue", "click-continue", "findName")

\* FindName as it would be if a missing name field ended the navigator
FindName_NullStartsRecording(j) ==
    Locate(j, "findName", "name", "selectName", "recStart")

\* step 2: locate the "Your name" input
FindName(j) ==
    Locate(j, "findName", "name", "selectName", "findJoin")

\* step 2: typeInElement(nameInput, 'Meeting Bot') when it was found
SelectName(j) ==
    TypeSelect(j, "selectName", "typeName")

TypeName(j) ==
    TypeText(j, "typeName", "findJoin")

\* FindJoin as it would be without the guard in front of clickElement
FindJoin_Unguarded(j) ==
    Locate(j, "findJoin", "join", "clickJoin", "clickJoin")

\* step 3: locate the "Ask to join" control
FindJoin(j) ==
    Locate(j, "findJoin", "join", "clickJoin", "recStart")

\* ClickJoin as it would be if a failed click went back to locating the
\* control
ClickJoin_RetryOnFailure(j) ==
    /\ pc[j] = "clickJoin"
    /\ \/ Returns(j, Ev("click-join", element[j]), "recStart")
       \/ /\ trace' = [trace EXCEPT ![j] =
                 Append(@, Ev("click-join", element[j]))]
          /\ thrown' = [thrown EXCEPT ![j] = Append(@, "interact")]
          /\ pc' = [pc EXCEPT ![j] = "findJoin"]
          /\ UNCHANGED <<caught, promiseVars>>
    /\ UNCHANGED <<inputs, objVars, browser, recorder, element, console>>

\* step 3: click it when it was found
ClickJoin(j) ==
    ClickElement(j, "clickJoin", "click-join", "recStart")

\* RecorderStart as it would be if a failing start were swallowed and the
\* job went on to the timed wait
RecorderStart_FailureIgnored(j) ==
    /\ pc[j] = "recStart"
    /\ \/ /\ Returns(j, Ev("start", videoOutputPath[j]), "wait")
          /\ recorder' = [recorder EXCEPT ![j] = "recording"]
          /\ console' = [console EXCEPT ![j] =
                 Append(@, Log("RecordingStarted", "none"))]
       \/ /\ trace' = [trace EXCEPT ![j] =
                 Append(@, Ev("start", videoOutputPath[j]))]
          /\ thrown' = [thrown EXCEPT ![j] = Append(@, "recorderStart")]
          /\ pc' = [pc EXCEPT ![j] = "wait"]
          /\ UNCHANGED <<recorder, console, caught, promiseVars>>
    /\ UNCHANGED <<inputs, objVars, browser, element>>

\* recorder.start(this.videoOutputPath), then the "Recording started" log
RecorderStart(j) ==
    /\ pc[j] = "recStart"
    /\ \/ /\ Returns(j, Ev("start", videoOutputPath[j]), "wait")
          /\ recorder' = [recorder EXCEPT ![j] = "recording"]
          /\ console' = [console EXCEPT ![j] =
                 Append(@, Log("RecordingStarted", "none"))]
       \/ /\ ThrowsInTry(j, Ev("start", videoOutputPath[j]), "recorderStart")
          /\ UNCHANGED <<recorder, console>>
    /\ UNCHANGED <<inputs, objVars, browser, element>>

\* Wait as it would be if a failing wait were swallowed and the job went
\* on to stop the recorder
Wait_FailureProceedsToStop(j) ==
    /\ pc[j] = "wait"
    /\ \/ /\ Returns(j, Ev("wait", recordingDuration[j]), "recStop")
          /\ console' = [console EXCEPT ![j] =
                 Append(@, Log("Stopping", "none"))]
       \/ /\ trace' = [trace EXCEPT ![j] =
                 Append(@, Ev("wait", recordingDuration[j]))]
          /\ thrown' = [thrown EXCEPT ![j] = Append(@, "wait")]
          /\ pc' = [pc EXCEPT ![j] = "recStop"]
          /\ UNCHANGED <<console, caught, promiseVars>>
    /\ UNCHANGED <<inputs, objVars, browser, recorder, element>>

\* Wait as it would be with the default duration hard-coded
Wait_FixedDuration(j) ==
    /\ pc[j] = "wait"
    /\ \/ /\ Returns(j, Ev("wait", DefaultDuration), "recStop")
          /\ console' = [console EXCEPT ![j] =
                 Append(@, Log("Stopping", "none"))]
       \/ /\ ThrowsInTry(j, Ev("wait", DefaultDuration), "wait")
          /\ UNCHANGED console
    /\ UNCHANGED <<inputs, objVars, browser, recorder, element>>

\* page.waitForTimeout(this.recordingDuration), then the "Stopping" log
Wait(j) ==
    /\ pc[j] = "wait"
    /\ \/ /\ Returns(j, Ev("wait", recordingDuration[j]), "recStop")
          /\ console' = [console EXCEPT ![j] =
                 Append(@, Log("Stopping", "none"))]
       \/ /\ ThrowsInTry(j, Ev("wait", recordingDuration[j]), "wait")
          /\ UNCHANGED console
    /\ UNCHANGED <<inputs, objVars, browser, recorder, element>>

\* recorder.stop(), then the "Recording saved" log
RecorderStop(j) ==
    /\ pc[j] = "recStop"
    /\ \/ /\ Returns(j, Ev("stop", 0), "finally")
          /\ recorder' = [recorder EXCEPT ![j] = "finalized"]
          /\ console' = [console EXCEPT ![j] = Append(@, Log("Saved", "none"))]
       \/ /\ ThrowsInTry(j, Ev("stop", 0), "recorderStop")
          /\ UNCHANGED <<recorder, console>>
    /\ UNCHANGED <<inputs, objVars, browser, element>>

\* Catch as it would be if the handler called recorder.stop() whatever
\* state the recorder is in
Catch_StopsRecorder(j) ==
    /\ pc[j] = "catch"
    /\ trace' = [trace EXCEPT ![j] = Append(@, Ev("stop", 0))]
    /\ recorder' = [recorder EXCEPT ![j] =
           IF @ = "recording" THEN "finalized" ELSE @]
    /\ console' = [console EXCEPT ![j] =
           Append(@, Log("ErrorDuringRecording", caught[j]))]
    /\ caught' = [caught EXCEPT ![j] = "none"]
    /\ pc' = [pc EXCEPT ![j] = "finally"]
    /\ UNCHANGED <<inputs, objVars, browser, element, thrown, promiseVars>>

\* Catch as it would be with browser.close at the end of the try body
\* instead of in a finally block
Catch_NoFinally(j) ==
    /\ pc[j] = "catch"
    /\ console' = [console EXCEPT ![j] =
           Append(@, Log("ErrorDuringRecording", caught[j]))]
    /\ caught' = [caught EXCEPT ![j] = "none"]
    /\ srOutcome' = [srOutcome EXCEPT ![j] = "resolved"]
    /\ pc' = [pc EXCEPT ![j] = "main_return"]
    /\ UNCHANGED <<inputs, objVars, browser, recorder, element, trace,
                   thrown, srError, mainOutcome>>

\* catch (error): console.error, nothing is rethrown
Catch(j) ==
    /\ pc[j] = "catch"
    /\ console' = [console EXCEPT ![j] =
           Append(@, Log("ErrorDuringRecording", caught[j]))]
    /\ caught' = [caught EXCEPT ![j] = "none"]
    /\ pc' = [pc EXCEPT ![j] = "finally"]
    /\ UNCHANGED <<inputs, objVars, browser, recorder, element, trace,
                   thrown, promiseVars>>

\* Finally as it would be if the browser were one object shared by the
\* jobs of the process: closing it closes it for all of them
Finally_ClosesAll(j) ==
    /\ pc[j] = "finally"
    /\ trace' = [trace EXCEPT ![j] = Append(@, Ev("close", 0))]
    /\ \/ /\ browser' = [i \in jobs |-> "closed"]
          /\ srOutcome' = [srOutcome EXCEPT ![j] = "resolved"]
          /\ pc' = [pc EXCEPT ![j] = "main_return"]
          /\ UNCHANGED <<thrown, srError>>
       \/ /\ thrown' = [thrown EXCEPT ![j] = Append(@, "close")]
          /\ srOutcome' = [srOutcome EXCEPT ![j] = "rejected"]
          /\ srError' = [srError EXCEPT ![j] = "close"]
          /\ pc' = [pc EXCEPT ![j] = "main_catch"]
          /\ UNCHANGED browser
    /\ UNCHANGED <<inputs, objVars, recorder, element, caught, console,
                   mainOutcome>>

\* finally: browser.close(); the promise of startRecording then resolves,
\* or rejects when close itself throws
Finally(j) ==
    /\ pc[j] = "finally"
    /\ trace' = [trace EXCEPT ![j] = Append(@, Ev("close", 0))]
    /\ \/ /\ browser' = [browser EXCEPT ![j] = "closed"]
          /\ srOutcome' = [srOutcome EXCEPT ![j] = "resolved"]
          /\ pc' = [pc EXCEPT ![j] = "main_return"]
          /\ UNCHANGED <<thrown, srError>>
       \/ /\ thrown' = [thrown EXCEPT ![j] = Append(@, "close")]
          /\ srOutcome' = [srOutcome EXCEPT ![j] = "rejected"]
          /\ srError' = [srError EXCEPT ![j] = "close"]
          /\ pc' = [pc EXCEPT ![j] = "main_catch"]
          /\ UNCHANGED browser
    /\ UNCHANGED <<inputs, objVars, recorder, element, caught, console,
                   mainOutcome>>

\* ---------------------------------------------------------------- main

\* main: await meetRecorder.startRecording() returned normally
MainReturn(j) ==
    /\ pc[j] = "main_return"
    /\ mainOutcome' = [mainOutcome EXCEPT ![j] = "resolved"]
    /\ pc' = [pc EXCEPT ![j] = "done"]
    /\ UNCHANGED <<inputs, objVars, browser, recorder, element, caught,
                   trace, thrown, console, srOutcome, srError>>

\* MainCatch as it would be if the handler logged and rethrew
MainCatch_Rethrows(j) ==
    /\ pc[j] = "main_catch"
    /\ console' = [console EXCEPT ![j] =
           Append(@, Log("MeetRecordingFailed", srError[j]))]
    /\ mainOutcome' = [mainOutcome EXCEPT ![j] = "rejected"]
    /\ pc' = [pc EXCEPT ![j] = "done"]
    /\ UNCHANGED <<inputs, objVars, browser, recorder, element, caught,
                   trace, thrown, srOutcome, srError>>

\* main: catch (error) around startRecording logs and falls through
MainCatch(j) ==
    /\ pc[j] = "main_catch"
    /\ console' = [console EXCEPT ![j] =
           Append(@, Log("MeetRecordingFailed", srError[j]))]
    /\ mainOutcome' = [mainOutcome EXCEPT ![j] = "resolved"]
    /\ pc' = [pc EXCEPT ![j] = "done"]
    /\ UNCHANGED <<inputs, objVars, browser, recorder, element, caught,
                   trace, thrown, srOutcome, srError>>

Next ==
    \E j \in jobs :
        \/ Construct(j)
        \/ ConstructFails(j)
        \/ Launch(j)
        \/ NewPage(j)
        \/ InstallStub(j)
        \/ SetHeaders(j)
        \/ MakeRecorder(j)
        \/ Goto(j)
        \/ WrapGetUserMedia(j)
        \/ SetViewport(j)
        \/ FindContinue(j)
        \/ ClickContinue(j)
        \/ FindName(j)
        \/ SelectName(j)
        \/ TypeName(j)
        \/ FindJoin(j)
        \/ ClickJoin(j)
        \/ RecorderStart(j)
        \/ Wait(j)
        \/ RecorderStop(j)
        \/ Catch(j)
        \/ Finally(j)
        \/ MainReturn(j)
        \/ MainCatch(j)

Spec == Init /\ [][Next]_vars

TypeOK ==
    /\ \A j \in jobs :
        /\ browser[j] \in {"none", "open", "closed"}
        /\ recorder[j] \in {"none", "idle", "recording", "finalized"}
        /\ element[j] \in Nodes \cup {Null}
        /\ srOutcome[j] \in {"pending", "resolved", "rejected"}
        /\ mainOutcome[j] \in {"pending", "resolved", "rejected"}

\* ------------------------------------------------------- observations

\* number of calls of op the job has made
Count(j, op) == Cardinality({i \in DOMAIN trace[j] : trace[j][i].op = op})

\* the job has raised an error of this kind
Threw(j, kind) == \E i \in DOMAIN thrown[j] : thrown[j][i] = kind

\* the promise of startRecording has settled
Ended(j) == srOutcome[j] # "pending"

\* control entered the try block of startRecording
EnteredTry(j) == Count(j, "newRecorder") > 0

\* recorder.start was called and returned
StartSucceeded(j) == Count(j, "start") > 0 /\ ~Threw(j, "recorderStart")

\* position of the first call of op in the job's trace, 0 when there is none
FirstAt(j, op) ==
    IF Count(j, op) = 0 THEN 0
    ELSE CHOOSE i \in DOMAIN trace[j] :
            /\ trace[j][i].op = op
            /\ \A k \in 1..(i - 1) : trace[j][k].op # op

\* errors a step of the try block can raise
TryErrors == {"recorderCtor", "navigation", "wrap", "viewport", "locate",
              "interact", "elementMissing", "recorderStart", "wait",
              "recorderStop"}

\* the job failed inside the try block
FailedInTry(j) == \E k \in TryErrors : Threw(j, k)

\* ------------------------------------------------------------- claims

\* C1: every execution of startRecording that reaches the try block,
\* whether it succeeds or fails at navigation, the permission wrap, a
\* navigator step, recorder start, the wait or recorder stop, has called
\* browser.close exactly once when it ends (and never more than once at
\* any time); the browser is closed unless close itself threw.
C1_BrowserClosedOnce ==
    \A j \in jobs :
        /\ Count(j, "close") <= 1
        /\ (Ended(j) /\ EnteredTry(j)) =>
              /\ Count(j, "close") = 1
              /\ (~Threw(j, "close") => browser[j] = "closed")

C1_Witness ==
    \E j \in jobs :
        /\ Ended(j)
        /\ Threw(j, "wait")
        /\ Count(j, "close") = 1
        /\ browser[j] = "closed"

\* C2: in every job where recorder.start was called and succeeded,
\* recorder.stop has been called exactly once when the job ends, even if
\* the timed wait failed.
C2_StopOncePerStart ==
    \A j \in jobs :
        (Ended(j) /\ StartSucceeded(j)) => Count(j, "stop") = 1

\* C3: whichever step of the try block fails, when the job ends the
\* recorder's stop has been attempted if the recorder was started, the
\* browser's close has been attempted, and stop came before close.
C3_CleanupOrder ==
    \A j \in jobs :
        (Ended(j) /\ FailedInTry(j)) =>
            /\ Count(j, "close") = 1
            /\ StartSucceeded(j) =>
                  /\ Count(j, "stop") >= 1
                  /\ FirstAt(j, "stop") < FirstAt(j, "close")

\* C4: when page creation, the pre-navigation stub or the header setup
\* fails after the browser was launched, browser.close has been called
\* when the job ends.
C4_LaunchFailureClosesBrowser ==
    \A j \in jobs :
        (/\ Ended(j)
         /\ browser[j] # "none"
         /\ (Threw(j, "newPage") \/ Threw(j, "stub") \/ Threw(j, "headers")))
        => Count(j, "close") = 1

\* C5: every job in which an error was raised is logged by the catch
\* clause and reported to the caller of startRecording as failed: the
\* promise rejects, while a successful job's promise resolves.
C5_FailureReported ==
    \A j \in jobs :
        Ended(j) =>
            (srOutcome[j] = "rejected" <=> thrown[j] # <<>>)

\* C6 (scenario D): when recorder.start throws, recorder.stop and the timed
\* wait are never called in that job, and when the job ends the catch
\* clause has logged the recorder-start error and the browser has been
\* closed by the one call of browser.close (unless close threw).
C6_StartFailure ==
    \A j \in jobs :
        Threw(j, "recorderStart") =>
            /\ Count(j, "stop") = 0
            /\ Count(j, "wait") = 0
            /\ recorder[j] = "idle"
            /\ Ended(j) =>
                  /\ \E i \in DOMAIN console[j] :
                        console[j][i] = Log("ErrorDuringRecording", "recorderStart")
                  /\ Count(j, "close") = 1
                  /\ (~Threw(j, "close") => browser[j] = "closed")

C6_Witness ==
    \E j \in jobs :
        /\ Threw(j, "recorderStart")
        /\ Ended(j)
        /\ browser[j] = "closed"
        /\ Count(j, "stop") = 0

\* the calls the navigator makes
NavigatorOps == {"query", "click-continue", "select-name", "type-name",
                 "click-join"}

\* C7 (scenario C): when page.goto fails, no navigator call is made, the
\* recorder is never started or stopped, and when the job ends the catch
\* clause has logged the navigation error and the browser has been closed
\* by the one call of browser.close (unless close threw).
C7_NavigationFailure ==
    \A j \in jobs :
        Threw(j, "navigation") =>
            /\ \A i \in DOMAIN trace[j] : trace[j][i].op \notin NavigatorOps
            /\ Count(j, "start") = 0
            /\ Count(j, "stop") = 0
            /\ Count(j, "navigate") = 1
            /\ Ended(j) =>
                  /\ \E i \in DOMAIN console[j] :
                        console[j][i] = Log("ErrorDuringRecording", "navigation")
                  /\ Count(j, "close") = 1
                  /\ (~Threw(j, "close") => browser[j] = "closed")

C7_Witness ==
    \E j \in jobs :
        /\ Threw(j, "navigation")
        /\ Ended(j)
        /\ browser[j] = "closed"
        /\ Count(j, "start") = 0

\* the page has an element matching query q
Present(j, q) == Len(dom[j][q]) > 0

\* positions in the job's trace of the locator query for q
QueryAt(j, q) == {i \in DOMAIN trace[j] : trace[j][i] = Ev("query", q)}

\* C8: recorder.start is called at most once, and only after page.goto
\* returned successfully and the navigator ran to its end: each of the
\* three queries was made once, in the order continue, name, join, every
\* element found was acted on, and no navigator call follows start.
C8_StartAfterNavigator ==
    \A j \in jobs :
        /\ Count(j, "start") <= 1
        /\ \A i \in DOMAIN trace[j] :
              trace[j][i].op = "start" =>
                /\ ~Threw(j, "navigation")
                /\ FirstAt(j, "navigate") \in 1..(i - 1)
                /\ \A q \in Queries : Cardinality(QueryAt(j, q)) = 1
                /\ \E a \in QueryAt(j, "continue"), b \in QueryAt(j, "name"),
                      c \in QueryAt(j, "join") :
                        FirstAt(j, "navigate") < a /\ a < b /\ b < c /\ c < i
                /\ (Present(j, "continue") => FirstAt(j, "click-continue") \in 1..(i - 1))
                /\ (Present(j, "name") => FirstAt(j, "type-name") \in 1..(i - 1))
                /\ (Present(j, "join") => FirstAt(j, "click-join") \in 1..(i - 1))
                /\ \A k \in DOMAIN trace[j] :
                      k > i => trace[j][k].op \notin NavigatorOps

C8_Witness ==
    \E j \in jobs :
        /\ StartSucceeded(j)
        /\ ~Present(j, "name")
        /\ Present(j, "join")
        /\ Count(j, "click-join") = 1

\* the interactions of the navigator
ActionOps == {"click-continue", "select-name", "type-name", "click-join"}

\* the interactions the job has made, in order
Actions(j) == SelectSeq(trace[j], LAMBDA e : e.op \in ActionOps)

\* the interactions the page's elements call for: a click on the first
\* "continue" match, select-all and typing on the first name field, a
\* click on the first "ask to join" match, each only if it is present
ExpectedActions(j) ==
    (IF Present(j, "continue")
        THEN <<Ev("click-continue", dom[j]["continue"][1])>> ELSE <<>>)
    \o (IF Present(j, "name")
        THEN <<Ev("select-name", dom[j]["name"][1]),
               Ev("type-name", dom[j]["name"][1])>> ELSE <<>>)
    \o (IF Present(j, "join")
        THEN <<Ev("click-join", dom[j]["join"][1])>> ELSE <<>>)

IsPrefix(s, t) == Len(s) <= Len(t) /\ SubSeq(t, 1, Len(s)) = s

\* the navigator ran to its end: control reached recorder.start
NavigatorDone(j) == pc[j] = "recStart" \/ Count(j, "start") > 0

\* C9: for each of the 8 presence/absence combinations of the three
\* elements, the navigator never raises the element-missing error, its
\* interactions are at every moment a prefix of the list click-continue,
\* type-name, click-join restricted to the present elements, and once it
\* has run to its end they are exactly that list: an absent element's
\* step is skipped and the later steps are still made.
C9_NavigatorOptionalSteps ==
    \A j \in jobs :
        /\ ~Threw(j, "elementMissing")
        /\ IsPrefix(Actions(j), ExpectedActions(j))
        /\ NavigatorDone(j) => Actions(j) = ExpectedActions(j)

C9_Witness ==
    \E j \in jobs :
        /\ NavigatorDone(j)
        /\ ~Present(j, "continue")
        /\ Present(j, "name")
        /\ Present(j, "join")
        /\ Len(Actions(j)) = 3
        /\ thrown[j] = <<>>

\* the calls scenario A lists
ScenarioOps == {"navigate", "click-continue", "type-name", "click-join",
                "start", "wait", "stop", "close"}

\* the job's calls among those scenario A lists, in order
ScenarioTrace(j) == SelectSeq(trace[j], LAMBDA e : e.op \in ScenarioOps)

\* C10 (scenario A): when all three elements are present and nothing
\* throws, the ended job has called, in this order and once each:
\* navigate, click-continue, type-name, click-join, recorder start, one
\* wait of the configured duration (30000 when none was given), recorder
\* stop, browser close; its promise resolved, the recorder is finalized,
\* the browser closed and the last log says the recording was saved.
C10_ScenarioA ==
    \A j \in jobs :
        (/\ Ended(j)
         /\ thrown[j] = <<>>
         /\ \A q \in Queries : Present(j, q))
        =>
        /\ [i \in DOMAIN ScenarioTrace(j) |-> ScenarioTrace(j)[i].op]
              = <<"navigate", "click-continue", "type-name", "click-join",
                  "start", "wait", "stop", "close">>
        /\ ScenarioTrace(j)[6].arg =
              (IF durArg[j] = NoArg THEN 30000 ELSE durArg[j])
        /\ srOutcome[j] = "resolved"
        /\ recorder[j] = "finalized"
        /\ browser[j] = "closed"
        /\ console[j][Len(console[j])] = Log("Saved", "none")

C10_Witness ==
    \E j \in jobs :
        /\ Ended(j)
        /\ thrown[j] = <<>>
        /\ \A q \in Queries : Present(j, q)
        /\ durArg[j] = NoArg
        /\ Count(j, "stop") = 1
        /\ browser[j] = "closed"

\* the console has a record of this error
Logged(j, kind) ==
    \E i \in DOMAIN console[j] :
        console[j][i].err = kind /\ console[j][i].msg # "TopLevel"

\* C11: every failure of a job (a browser launch failure, a failure before
\* the try block, a failure inside it, a failure of browser.close) is
\* logged and swallowed: main's promise never rejects because of it, and
\* once main is done its promise is resolved and every error raised by
\* startRecording has a console record.
C11_MainSwallowsJobErrors ==
    \A j \in jobs :
        /\ (mainOutcome[j] = "rejected" => thrown[j] = <<"mkdir">>)
        /\ (pc[j] = "done" /\ ~Threw(j, "mkdir")) =>
              /\ mainOutcome[j] = "resolved"
              /\ \A i \in DOMAIN thrown[j] : Logged(j, thrown[j][i])
              /\ srOutcome[j] = "rejected" =>
                    console[j][Len(console[j])] = Log("MeetRecordingFailed", srError[j])

C11_Witness ==
    \E j \in jobs :
        /\ pc[j] = "done"
        /\ thrown[j] = <<"wait", "close">>
        /\ mainOutcome[j] = "resolved"

\* ------------------------------------- the locator and the primitives
\* A caller that passes the locator's result to a primitive without the
\* guard startRecording puts in front of it.

InitPrim ==
    InitWith({1}, "prim", [Queries -> MatchLists], {NoArg}, {NoDir})

\* findElementByXPath(page, q) for some query q
PrimLocate(j) ==
    \E q \in Queries : Locate(j, "prim", q, "prim_call", "prim_call")

\* clickElement(result)
PrimClick(j) ==
    ClickElement(j, "prim_call", "click", "prim_done")

\* typeInElement(result, text), up to its first await
PrimSelect(j) ==
    TypeSelect(j, "prim_call", "prim_type")

\* typeInElement(result, text), its second await
PrimType(j) ==
    TypeText(j, "prim_type", "prim_done")

NextPrim ==
    \E j \in jobs :
        \/ PrimLocate(j)
        \/ PrimClick(j)
        \/ PrimSelect(j)
        \/ PrimType(j)

SpecPrim == InitPrim /\ [][NextPrim]_vars

\* a primitive has been called with the locator's result
PrimCalled(j) ==
    \/ pc[j] \in {"prim_type", "prim_done"}
    \/ pc[j] = "catch" /\ ~Threw(j, "locate")

\* the calls made on elements, in order
Interactions(j) == SelectSeq(trace[j], LAMBDA e : e.op # "query")

\* C12: clickElement and typeInElement raise the element-missing error if
\* and only if the element they are given is the locator's not-found
\* value; given a present element they call it (one click, or the
\* select-all click followed by type) and given null they call nothing.
C12_PrimitivesThrowIffNull ==
    \A j \in jobs :
        /\ ~PrimCalled(j) => ~Threw(j, "elementMissing")
        /\ PrimCalled(j) =>
              /\ Threw(j, "elementMissing") <=> element[j] = Null
              /\ element[j] = Null => Interactions(j) = <<>>
              /\ element[j] # Null =>
                    /\ Len(Interactions(j)) >= 1
                    /\ Interactions(j)[1] \in {Ev("click", element[j]),
                                               Ev("select-name", element[j])}
              /\ (element[j] # Null /\ pc[j] = "prim_done") =>
                    Interactions(j) \in
                        {<<Ev("click", element[j])>>,
                         <<Ev("select-name", element[j]),
                           Ev("type-name", element[j])>>}

C12_Witness ==
    \E j \in jobs :
        /\ PrimCalled(j)
        /\ element[j] = Null
        /\ thrown[j] = <<"elementMissing">>

\* the set of nodes in a match list
Range(s) == {s[i] : i \in DOMAIN s}

\* C13: when findElementByXPath returns, its result is the not-found value
\* if the query matches nothing and otherwise the match that comes first
\* in document order; the only error it can raise is the one page.$x
\* raised, and it leaves the page, the browser and the recorder as they
\* were.
C13_LocatorFirstOrNull ==
    \A j \in jobs :
        /\ pc[j] = "prim_call" =>
              LET q == trace[j][Len(trace[j])].arg IN
              /\ Range(dom[j][q]) = {} => element[j] = Null
              /\ Range(dom[j][q]) # {} =>
                    /\ element[j] \in Range(dom[j][q])
                    /\ \A n \in Range(dom[j][q]) : element[j] <= n
              /\ thrown[j] = <<>>
              /\ trace[j] = <<Ev("query", q)>>
              /\ browser[j] = "none" /\ recorder[j] = "none"
              /\ console[j] = <<>>
        /\ (pc[j] = "catch" /\ Interactions(j) = <<>> /\ ~PrimCalled(j)) =>
              thrown[j] = <<"locate">>

C13_Witness ==
    \E j \in jobs :
        /\ pc[j] = "prim_call"
        /\ Len(dom[j]["name"]) = 2
        /\ trace[j] = <<Ev("query", "name")>>
        /\ element[j] = dom[j]["name"][1]

\* ------------------------------------------- two jobs in one process

\* the pages of the concurrent jobs: every element absent, or every
\* element present once
ConcDoms == {[q \in Queries |-> <<>>], [q \in Queries |-> <<1>>]}

InitConc == InitWith({1, 2}, "construct", ConcDoms, {NoArg}, DirArgs)

\* the steps of the two jobs interleave at every await
SpecConc == InitConc /\ [][Next]_vars

\* the directory the job's file goes to
VideoDir(j) == IF dirArg[j] = NoDir THEN DefaultDir ELSE dirArg[j]

\* C14: two jobs constructed in one process with the same output
\* directory have different output paths when the values Date.now() gave
\* them differ, and the same output path when those values are equal.
C14_PathUniquePerTimestamp ==
    \A j, k \in jobs :
        (/\ j # k
         /\ videoOutputPath[j] # NoPath
         /\ videoOutputPath[k] # NoPath
         /\ VideoDir(j) = VideoDir(k))
        => (createdAt[j] # createdAt[k] <=> videoOutputPath[j] # videoOutputPath[k])

C14_Witness ==
    /\ videoOutputPath[1] # NoPath
    /\ videoOutputPath[2] # NoPath
    /\ VideoDir(1) = VideoDir(2)
    /\ createdAt[1] # createdAt[2]
    /\ videoOutputPath[1] # videoOutputPath[2]

\* C15: a job has at most one recorder and it only moves idle ->
\* recording -> finalized: recorder.start is called at most once and only
\* on the idle recorder of an open browser, recorder.stop at most once
\* and only after a start that succeeded, and the recorder's state is
\* the one these calls leave it in.
C15_RecorderLifecycle ==
    \A j \in jobs :
        /\ Count(j, "newRecorder") <= 1
        /\ Count(j, "start") <= 1
        /\ Count(j, "stop") <= 1
        /\ Count(j, "start") = 1 =>
              /\ FirstAt(j, "newRecorder") \in 1..(FirstAt(j, "start") - 1)
              /\ ~Threw(j, "recorderCtor")
        /\ Count(j, "stop") = 1 =>
              /\ StartSucceeded(j)
              /\ FirstAt(j, "start") < FirstAt(j, "stop")
        /\ recorder[j] = "none" <=>
              (Count(j, "newRecorder") = 0 \/ Threw(j, "recorderCtor"))
        /\ recorder[j] = "recording" <=>
              (StartSucceeded(j) /\ (Count(j, "stop") = 0 \/ Threw(j, "recorderStop")))
        /\ recorder[j] = "finalized" <=>
              (Count(j, "stop") = 1 /\ ~Threw(j, "recorderStop"))

C15_Witness ==
    \E j \in jobs :
        /\ recorder[j] = "finalized"
        /\ Count(j, "start") = 1
        /\ Count(j, "stop") = 1
        /\ Ended(j)

\* every call of op in the job's trace comes after a call of earlier
Precedes(j, earlier, op) ==
    \A i \in DOMAIN trace[j] :
        trace[j][i].op = op =>
            \E k \in 1..(i - 1) : trace[j][k].op = earlier

\* C16: the media-device stub is installed, successfully, before any
\* navigation is issued, so a failed stub installation means no
\* navigation; the getUserMedia wrapper is installed, successfully, after
\* the navigation returned and before every navigator call and before
\* recorder.start.
C16_PermissionLayers ==
    \A j \in jobs :
        /\ Precedes(j, "stub", "navigate")
        /\ Threw(j, "stub") => Count(j, "navigate") = 0
        /\ Precedes(j, "navigate", "wrap")
        /\ Count(j, "wrap") > 0 => ~Threw(j, "navigation")
        /\ \A op \in NavigatorOps \cup {"start"} :
              /\ Precedes(j, "wrap", op)
              /\ Count(j, op) > 0 => ~Threw(j, "wrap")

C16_Witness ==
    \E j \in jobs :
        /\ Count(j, "click-join") = 1
        /\ Count(j, "start") = 1
        /\ FirstAt(j, "stub") < FirstAt(j, "navigate")
        /\ FirstAt(j, "navigate") < FirstAt(j, "wrap")
        /\ FirstAt(j, "wrap") < FirstAt(j, "click-join")

\* C17: the job waits at most once, only after recorder.start succeeded,
\* and for the configured duration; recorder.stop is called only after
\* that one wait has returned, with no other call between start, wait
\* and stop.
C17_SingleFixedWait ==
    \A j \in jobs :
        /\ Count(j, "wait") <= 1
        /\ Count(j, "wait") = 1 =>
              /\ StartSucceeded(j)
              /\ FirstAt(j, "wait") = FirstAt(j, "start") + 1
              /\ trace[j][FirstAt(j, "wait")].arg =
                    (IF durArg[j] = NoArg THEN 30000 ELSE durArg[j])
        /\ Count(j, "stop") >= 1 =>
              /\ Count(j, "wait") = 1
              /\ ~Threw(j, "wait")
              /\ FirstAt(j, "stop") = FirstAt(j, "wait") + 1

C17_Witness ==
    \E j \in jobs :
        /\ Count(j, "stop") = 1
        /\ Count(j, "wait") = 1
        /\ durArg[j] = ShortDuration
        /\ trace[j][FirstAt(j, "wait")].arg = ShortDuration

\* the calls of startRecording other than locator queries
StepOps == {"launch", "newPage", "stub", "headers", "newRecorder",
            "navigate", "wrap", "viewport", "click-continue", "select-name",
            "type-name", "click-join", "start", "wait", "stop", "close"}

\* positions of control after the try body: catch, finally, and main
CleanupPcs == {"catch", "finally", "main_return", "main_catch", "done"}

\* C18: within one startRecording call every step (launch, navigation,
\* each locator query, each interaction, recorder start, the wait,
\* recorder stop, browser close) is made at most once, and once an error
\* was raised control is in the catch/finally/return path and never at
\* an earlier step; the only call after a failure is browser.close.
C18_NoRetry ==
    \A j \in jobs :
        /\ \A op \in StepOps : Count(j, op) <= 1
        /\ \A q \in Queries : Cardinality(QueryAt(j, q)) <= 1
        /\ thrown[j] # <<>> =>
              /\ pc[j] \in CleanupPcs
              /\ Len(thrown[j]) <= 2
              /\ Len(thrown[j]) = 2 => thrown[j][2] = "close"
              /\ (thrown[j][1] # "close" /\ Count(j, "close") = 1) =>
                    trace[j][Len(trace[j])].op = "close"

C18_Witness ==
    \E j \in jobs :
        /\ thrown[j] = <<"interact">>
        /\ Count(j, "click-join") = 1
        /\ Ended(j)
        /\ Count(j, "close") = 1

\* positions of control at an interaction primitive
PrimitivePcs == {"clickContinue", "selectName", "typeName", "clickJoin"}

\* C20: in startRecording a primitive is only reached with a non-null
\* element, so the element-missing error is never raised, and an error
\* caught right after a navigator call is a failed locator query or a
\* failed interaction on a present element.
C20_GuardedPrimitives ==
    \A j \in jobs :
        /\ pc[j] \in PrimitivePcs => element[j] # Null
        /\ ~Threw(j, "elementMissing")
        /\ (pc[j] = "catch" /\ trace[j][Len(trace[j])].op \in NavigatorOps) =>
              /\ caught[j] \in {"locate", "interact"}
              /\ caught[j] = "interact" =>
                    /\ trace[j][Len(trace[j])].op \in ActionOps
                    /\ trace[j][Len(trace[j])].arg # Null
              /\ caught[j] = "locate" =>
                    trace[j][Len(trace[j])].op = "query"

C20_Witness ==
    \E j \in jobs :
        /\ pc[j] = "catch"
        /\ caught[j] = "interact"
        /\ trace[j][Len(trace[j])].op = "click-join"
        /\ ~Present(j, "continue")

\* everything a job owns: its object, its session, its recorder, its
\* position, its calls and its outcome
JobState(j) ==
    <<pc[j], createdAt[j], recordingDuration[j], videoOutputPath[j],
      browser[j], recorder[j], element[j], caught[j], trace[j], thrown[j],
      console[j], srOutcome[j], srError[j], mainOutcome[j]>>

\* the calls of a job in which nothing fails, up to browser.close, as its
\* own page and arguments determine them
SoloBody(j) ==
    <<Ev("launch", 0), Ev("newPage", 0), Ev("stub", 0), Ev("headers", 0),
      Ev("newRecorder", 0), Ev("navigate", 60000), Ev("wrap", 0),
      Ev("viewport", 0), Ev("query", "continue")>>
    \o (IF Present(j, "continue")
        THEN <<Ev("click-continue", dom[j]["continue"][1])>> ELSE <<>>)
    \o <<Ev("query", "name")>>
    \o (IF Present(j, "name")
        THEN <<Ev("select-name", dom[j]["name"][1]),
               Ev("type-name", dom[j]["name"][1])>> ELSE <<>>)
    \o <<Ev("query", "join")>>
    \o (IF Present(j, "join")
        THEN <<Ev("click-join", dom[j]["join"][1])>> ELSE <<>>)
    \o <<Ev("start", videoOutputPath[j]),
         Ev("wait", IF durArg[j] = NoArg THEN 30000 ELSE durArg[j]),
         Ev("stop", 0)>>

\* the job's calls other than browser.close
Body(j) == SelectSeq(trace[j], LAMBDA e : e.op # "close")

\* errors that make the promise of startRecording reject
RejectingErrors == {"launch", "newPage", "stub", "headers", "close"}

\* what a job's own page, arguments and failures make of it
OwnCourse(j) ==
    /\ IsPrefix(Body(j), SoloBody(j))
    /\ (Ended(j) /\ thrown[j] = <<>>) =>
          /\ trace[j] = SoloBody(j) \o <<Ev("close", 0)>>
          /\ srOutcome[j] = "resolved"
          /\ recorder[j] = "finalized"
          /\ browser[j] = "closed"
    /\ Ended(j) =>
          (srOutcome[j] = "rejected" <=>
              \E i \in DOMAIN thrown[j] : thrown[j][i] \in RejectingErrors)
    /\ browser[j] = "closed" <=> (Count(j, "close") = 1 /\ ~Threw(j, "close"))
    /\ recorder[j] = "finalized" <=> (Count(j, "stop") = 1 /\ ~Threw(j, "recorderStop"))

\* C19: with two jobs running concurrently, every step is a step of one
\* job and leaves everything the other job owns (session, recorder,
\* position, calls, outcome) as it was, and after every step each job's
\* calls and outcome are those its own page, arguments and failures
\* determine, whatever the other job did: its browser is closed only by
\* its own browser.close and its recorder finalized only by its own
\* recorder.stop.
C19_JobsIndependent ==
    [][/\ \E k \in jobs : \A j \in jobs \ {k} : JobState(j)' = JobState(j)
       /\ \A j \in jobs : OwnCourse(j)']_vars

C19_Witness ==
    /\ Ended(1) /\ Ended(2)
    /\ thrown[1] = <<"navigation">>
    /\ thrown[2] = <<>>
    /\ srOutcome[2] = "resolved"
    /\ recorder[2] = "finalized"
    /\ browser[1] = "closed" /\ browser[2] = "closed"

====
